---- MODULE Spec2Model ----
(***************************************************************************)
(* A model of golink's link-record manager (package link) and of the HTTP  *)
(* handlers of package service over the one table, links(name unique,      *)
(* url).  Strings are sequences of one-character                           *)
(* strings, so that validation, URL parsing and URL rendering are computed *)
(* character by character as the Go code computes them.                    *)
(***************************************************************************)
EXTENDS Integers, Sequences, FiniteSets, TLC

VARIABLES store, pc, args, ret

vars == <<store, pc, args, ret>>

----------------------------------------------------------------------------
(* Strings.                                                                *)

EmptyStr == <<>>

Contains(s, c) == \E i \in 1..Len(s) : s[i] = c

ContainsAnyOf(s, cs) == \E i \in 1..Len(s) : s[i] \in cs

HasPrefix(s, p) == Len(s) >= Len(p) /\ SubSeq(s, 1, Len(p)) = p

\* strings.Index for a one-character needle: 0 when absent (Go's -1).
IndexOf(s, c) == IF Contains(s, c) THEN CHOOSE i \in 1..Len(s) : s[i] = c /\ \A j \in 1..(i - 1) : s[j] # c ELSE 0

LastIndexOf(s, c) == IF Contains(s, c) THEN CHOOSE i \in 1..Len(s) : s[i] = c /\ \A j \in (i + 1)..Len(s) : s[j] # c ELSE 0

----------------------------------------------------------------------------
(* Name validity.                                                          *)

\* const BlockChars = "/<>"
BlockChars == {"/", "<", ">"}

\* unicode.IsSpace on the characters the model uses ('\t', '\n', '\v', '\f',
\* '\r', ' ', U+0085, U+00A0 are the Latin-1 spaces).
IsSpace(c) == c \in {" ", "\t", "\n", "\r", "\f"}

\* Faulty variant: no check for whitespace.
ValidLinkNameNoSpaceCheck(name) == name # EmptyStr /\ ~ContainsAnyOf(name, BlockChars)

ValidLinkName(name) ==
    IF \E i \in 1..Len(name) : IsSpace(name[i])
    THEN FALSE
    ELSE name # EmptyStr /\ ~ContainsAnyOf(name, BlockChars)

----------------------------------------------------------------------------
(* net/url as link.Create, link.Update and linkByName use it.  The model's *)
(* addresses are written with letters, digits, '+', '-', '.', ':', '/' and *)
(* control characters; they hold no '?', '#', '@', '%', '[' and no space,  *)
(* so a parsed URL has no query, fragment, user info or escaped path.      *)

UpperCase == {"H", "X"}

ToLowerChar(c) == IF c = "H" THEN "h" ELSE IF c = "X" THEN "x" ELSE c

ToLower(s) == [i \in 1..Len(s) |-> ToLowerChar(s[i])]

IsLetter(c) ==
    c \in {"a", "b", "c", "d", "e", "f", "g", "h", "i", "j", "k", "l", "m", "n", "o", "p", "q",
           "r", "s", "t", "u", "v", "w", "x", "y", "z"} \cup UpperCase

IsDigit(c) == c \in {"0", "1", "2", "3", "4", "5", "6", "7", "8", "9"}

\* stringContainsCTLByte: a byte below ' ' or 0x7f.
IsCTL(c) == c \in {"\t", "\n", "\r", "\f"}

NoURL == [Scheme |-> EmptyStr, Opaque |-> EmptyStr, Host |-> EmptyStr, Path |-> EmptyStr, OmitHost |-> FALSE]

\* getScheme: [err, scheme, rest].  The scan stops at the first character
\* that settles the question.
SchemeStop(raw, i) ==
    \/ raw[i] = ":"
    \/ ~(IsLetter(raw[i]) \/ IsDigit(raw[i]) \/ raw[i] \in {"+", "-", "."})
    \/ (i = 1 /\ ~IsLetter(raw[i]))

\* getScheme at the character i where the scan stops.
SchemeAt(raw, i) ==
    IF raw[i] # ":"
    THEN [err |-> FALSE, scheme |-> EmptyStr, rest |-> raw]
    ELSE IF i = 1
    THEN [err |-> TRUE, scheme |-> EmptyStr, rest |-> EmptyStr]
    ELSE [err |-> FALSE, scheme |-> SubSeq(raw, 1, i - 1), rest |-> SubSeq(raw, i + 1, Len(raw))]

GetScheme(raw) ==
    IF \A i \in 1..Len(raw) : ~SchemeStop(raw, i)
    THEN [err |-> FALSE, scheme |-> EmptyStr, rest |-> raw]
    ELSE SchemeAt(raw, CHOOSE k \in 1..Len(raw) : SchemeStop(raw, k) /\ \A j \in 1..(k - 1) : ~SchemeStop(raw, j))

\* validOptionalPort: "" or ":" followed by digits only.
ValidOptionalPort(port) ==
    \/ port = EmptyStr
    \/ (port[1] = ":" /\ \A i \in 2..Len(port) : IsDigit(port[i]))

\* parseHost for a host without brackets: the port after the last ':' must
\* be valid, and no character may need escaping in a host.
HostOK(host) ==
    /\ (Contains(host, ":") => ValidOptionalPort(SubSeq(host, LastIndexOf(host, ":"), Len(host))))
    /\ \A i \in 1..Len(host) : host[i] # " "

\* strings.Cut(s, "/"): the part before the first '/'.
FirstSegment(s) == IF Contains(s, "/") THEN SubSeq(s, 1, IndexOf(s, "/") - 1) ELSE s

ParseFailed == [ok |-> FALSE, url |-> NoURL]

\* parse, from "//": the authority runs to the next '/' (at cut, 0 if none),
\* the path is what follows.
ParseAuthority(scheme, after, cut) ==
    IF ~HostOK(IF cut = 0 THEN after ELSE SubSeq(after, 1, cut - 1))
    THEN ParseFailed
    ELSE [ok |-> TRUE,
          url |-> [NoURL EXCEPT !.Scheme = scheme,
                                !.Host = IF cut = 0 THEN after ELSE SubSeq(after, 1, cut - 1),
                                !.Path = IF cut = 0 THEN EmptyStr ELSE SubSeq(after, cut, Len(after))]]

\* parse, after getScheme.
ParseRest(scheme, rest) ==
    IF ~HasPrefix(rest, <<"/">>) /\ scheme # EmptyStr
    THEN [ok |-> TRUE, url |-> [NoURL EXCEPT !.Scheme = scheme, !.Opaque = rest]]
    ELSE IF ~HasPrefix(rest, <<"/">>) /\ Contains(FirstSegment(rest), ":")
    THEN ParseFailed
    ELSE IF (scheme # EmptyStr \/ ~HasPrefix(rest, <<"/", "/", "/">>)) /\ HasPrefix(rest, <<"/", "/">>)
    THEN ParseAuthority(scheme, SubSeq(rest, 3, Len(rest)), IndexOf(SubSeq(rest, 3, Len(rest)), "/"))
    ELSE [ok |-> TRUE,
          url |-> [NoURL EXCEPT !.Scheme = scheme, !.Path = rest,
                                !.OmitHost = (scheme # EmptyStr /\ HasPrefix(rest, <<"/">>))]]

ParseScheme(g) == IF g.err THEN ParseFailed ELSE ParseRest(ToLower(g.scheme), g.rest)

\* url.Parse: [ok, url].
URLParse(raw) ==
    IF \E i \in 1..Len(raw) : IsCTL(raw[i])
    THEN ParseFailed
    ELSE ParseScheme(GetScheme(raw))

\* (*URL).String.
URLString(u) ==
    IF u.Opaque # EmptyStr
    THEN (IF u.Scheme # EmptyStr THEN u.Scheme \o <<":">> ELSE EmptyStr) \o u.Opaque
    ELSE (IF u.Scheme # EmptyStr THEN u.Scheme \o <<":">> ELSE EmptyStr)
         \o (IF (u.Scheme # EmptyStr \/ u.Host # EmptyStr)
                /\ ~(u.OmitHost /\ u.Host = EmptyStr)
                /\ (u.Host # EmptyStr \/ u.Path # EmptyStr)
             THEN <<"/", "/">> ELSE EmptyStr)
         \o u.Host
         \o (IF u.Path # EmptyStr /\ u.Path[1] # "/" /\ u.Host # EmptyStr THEN <<"/">> ELSE EmptyStr)
         \o (IF u.Scheme = EmptyStr /\ u.Host = EmptyStr /\ Contains(FirstSegment(u.Path), ":")
             THEN <<".", "/">> ELSE EmptyStr)
         \o u.Path

----------------------------------------------------------------------------
(* Inputs.                                                                 *)

\* Link names the callers pass: three valid ones (a letter, another letter,
\* a name with '-' and ':') and one invalid name of each kind.
NameF == <<"f">>
NameG == <<"g">>
NameDash == <<"f", "-", ":">>
Names == {NameF, NameG, NameDash, EmptyStr, <<"f", " ", "g">>, <<"f", "\n">>, <<"\t", "g">>,
          <<"/", "f">>, <<"<", "f", ">">>, <<"g", ">">>, <<"f", "<">>}

\* Addresses the callers pass: two in the form (*URL).String renders them,
\* one with an upper-case scheme (url.Parse lowers it), one without a scheme
\* before its ':' and one with a control character (url.Parse rejects both).
AddrX == <<"h", ":", "/", "/", "x">>
AddrY == <<"h", ":", "/", "/", "y">>
AddrUpperX == <<"H", ":", "/", "/", "x">>
AddrNoScheme == <<":", "/", "/", "x">>
AddrCTL == <<"h", ":", "/", "/", "\n">>
Addresses == {AddrX, AddrY, AddrUpperX, AddrNoScheme, AddrCTL}

----------------------------------------------------------------------------
(* The links table.  A state of the table is the set of its rows.          *)

Row(name, url) == [name |-> name, url |-> url]

RowsNamed(s, name) == {r \in s : r.name = name}

\* Faulty variant: a table without the unique key.
NameTakenNever(s, name) == FALSE

\* The schema's unique key on links.name: a statement that would leave two
\* rows with one name fails and changes nothing.
NameTaken(s, name) == RowsNamed(s, name) # {}

\* "select (url) from links where name=?;" through QueryRowContext: [found, url].
SelectUrl(s, name) ==
    IF RowsNamed(s, name) = {}
    THEN [found |-> FALSE, url |-> EmptyStr]
    ELSE [found |-> TRUE, url |-> (CHOOSE r \in RowsNamed(s, name) : TRUE).url]

\* "insert into links (name, url) values (?, ?);": [ok, store].
ExecInsert(s, name, url) ==
    IF NameTaken(s, name)
    THEN [ok |-> FALSE, store |-> s]
    ELSE [ok |-> TRUE, store |-> s \cup {Row(name, url)}]

\* "update links set name = ?, url = ? where name = ?;": [ok, store].  No
\* matching row is no error.
ExecUpdate(s, newName, url, oldName) ==
    LET others == s \ RowsNamed(s, oldName)
    IN  IF RowsNamed(s, oldName) = {}
        THEN [ok |-> TRUE, store |-> s]
        ELSE IF NameTaken(others, newName)
        THEN [ok |-> FALSE, store |-> s]
        ELSE [ok |-> TRUE, store |-> others \cup {Row(newName, url)}]

\* "delete from links where name=?;": [ok, store].
ExecDelete(s, name) == [ok |-> TRUE, store |-> s \ RowsNamed(s, name)]

----------------------------------------------------------------------------
(* Package link.                                                           *)

Nil == "nil"
ErrAlreadyExists == "already exists"
ErrInvalidLinkName == "invalid name"
ErrNotFound == "not found"
ErrUnparseableAddress == "unparsable"
\* Any other error: a failed statement or lookup, wrapped with fmt.Errorf.
ErrOther == "failed"

\* *Record: nil is NoRecord.
NoRecord == [Name |-> EmptyStr, Link |-> NoURL]

\* linkByName: [rec, found, err].
linkByName(s, name) ==
    LET q == SelectUrl(s, name)
        u == URLParse(q.url)
    IN  IF ~q.found
        THEN [rec |-> NoRecord, found |-> FALSE, err |-> Nil]
        ELSE IF ~u.ok
        THEN [rec |-> NoRecord, found |-> FALSE, err |-> ErrOther]
        ELSE [rec |-> [Name |-> name, Link |-> u.url], found |-> TRUE, err |-> Nil]

\* Faulty variant: the address is parsed before the name is validated.
CreateCheckAddressFirst(s, name, address) ==
    IF ~URLParse(address).ok THEN ErrUnparseableAddress
    ELSE IF ~ValidLinkName(name) THEN ErrInvalidLinkName
    ELSE IF linkByName(s, name).err # Nil THEN linkByName(s, name).err
    ELSE IF linkByName(s, name).found THEN ErrAlreadyExists
    ELSE Nil

\* Faulty variant: the name is looked up before the address is parsed.
CreateCheckLookupFirst(s, name, address) ==
    IF ~ValidLinkName(name) THEN ErrInvalidLinkName
    ELSE IF linkByName(s, name).err # Nil THEN linkByName(s, name).err
    ELSE IF linkByName(s, name).found THEN ErrAlreadyExists
    ELSE IF ~URLParse(address).ok THEN ErrUnparseableAddress
    ELSE Nil

\* Faulty variant: no lookup of the name; the insert is left to fail.
CreateCheckNoLookup(s, name, address) ==
    IF ~ValidLinkName(name) THEN ErrInvalidLinkName
    ELSE IF ~URLParse(address).ok THEN ErrUnparseableAddress
    ELSE Nil

\* Create up to its insert: the error it returns, or Nil to go on.
CreateCheck(s, name, address) ==
    IF ~ValidLinkName(name) THEN ErrInvalidLinkName
    ELSE IF ~URLParse(address).ok THEN ErrUnparseableAddress
    ELSE IF linkByName(s, name).err # Nil THEN linkByName(s, name).err
    ELSE IF linkByName(s, name).found THEN ErrAlreadyExists
    ELSE Nil

\* Faulty variant: the statement's arguments in the wrong order.
CreateExecArgsSwapped(s, name, address) ==
    LET x == ExecInsert(s, URLString(URLParse(address).url), name)
    IN  [err |-> IF x.ok THEN Nil ELSE ErrOther, store |-> x.store]

\* Faulty variant: the error of the insert is dropped.
CreateExecIgnoresError(s, name, address) ==
    [err |-> Nil, store |-> ExecInsert(s, name, URLString(URLParse(address).url)).store]

\* Create's insert of (name, u.String()): [err, store].
CreateExec(s, name, address) ==
    LET x == ExecInsert(s, name, URLString(URLParse(address).url))
    IN  [err |-> IF x.ok THEN Nil ELSE ErrOther, store |-> x.store]

\* Create: [err, store].
Create(s, name, address) ==
    IF CreateCheck(s, name, address) # Nil
    THEN [err |-> CreateCheck(s, name, address), store |-> s]
    ELSE CreateExec(s, name, address)

\* Faulty variant: the name is not validated.
ReadNoValidation(s, name) ==
    IF linkByName(s, name).err # Nil THEN [rec |-> NoRecord, err |-> ErrOther]
    ELSE IF ~linkByName(s, name).found THEN [rec |-> NoRecord, err |-> ErrNotFound]
    ELSE [rec |-> linkByName(s, name).rec, err |-> Nil]

\* Read: [rec, err].
Read(s, name) ==
    IF ~ValidLinkName(name) THEN [rec |-> NoRecord, err |-> ErrInvalidLinkName]
    ELSE IF linkByName(s, name).err # Nil THEN [rec |-> NoRecord, err |-> ErrOther]
    ELSE IF ~linkByName(s, name).found THEN [rec |-> NoRecord, err |-> ErrNotFound]
    ELSE [rec |-> linkByName(s, name).rec, err |-> Nil]

\* Faulty variant: oldName is validated in place of newName.
UpdateCheckOldValidatesOldName(s, oldName, newName, address) ==
    IF ~ValidLinkName(oldName) THEN ErrInvalidLinkName
    ELSE IF ~URLParse(address).ok THEN ErrUnparseableAddress
    ELSE IF linkByName(s, oldName).err # Nil THEN ErrOther
    ELSE IF ~linkByName(s, oldName).found THEN ErrNotFound
    ELSE Nil

\* Faulty variant: no lookup of oldName.
UpdateCheckOldNoLookup(s, oldName, newName, address) ==
    IF ~ValidLinkName(newName) THEN ErrInvalidLinkName
    ELSE IF ~URLParse(address).ok THEN ErrUnparseableAddress
    ELSE Nil

\* Faulty variant: oldName is looked up before newName and the address are
\* validated.
UpdateCheckOldLookupFirst(s, oldName, newName, address) ==
    IF linkByName(s, oldName).err # Nil THEN ErrOther
    ELSE IF ~linkByName(s, oldName).found THEN ErrNotFound
    ELSE IF ~ValidLinkName(newName) THEN ErrInvalidLinkName
    ELSE IF ~URLParse(address).ok THEN ErrUnparseableAddress
    ELSE Nil

\* Faulty variant: the address is not parsed.
UpdateCheckOldNoParse(s, oldName, newName, address) ==
    IF ~ValidLinkName(newName) THEN ErrInvalidLinkName
    ELSE IF linkByName(s, oldName).err # Nil THEN ErrOther
    ELSE IF ~linkByName(s, oldName).found THEN ErrNotFound
    ELSE Nil

\* Update up to its lookup of oldName: the error it returns, or Nil to go on.
UpdateCheckOld(s, oldName, newName, address) ==
    IF ~ValidLinkName(newName) THEN ErrInvalidLinkName
    ELSE IF ~URLParse(address).ok THEN ErrUnparseableAddress
    ELSE IF linkByName(s, oldName).err # Nil THEN ErrOther
    ELSE IF ~linkByName(s, oldName).found THEN ErrNotFound
    ELSE Nil

\* Faulty variant: no lookup of newName; the statement is left to fail.
UpdateCheckNewNoLookup(s, newName) == Nil

\* Update's lookup of newName.
UpdateCheckNew(s, newName) ==
    IF linkByName(s, newName).err # Nil THEN ErrOther
    ELSE IF linkByName(s, newName).found THEN ErrAlreadyExists
    ELSE Nil

\* Faulty variant: the statement sets the url and leaves the name.
UpdateExecKeepsName(s, oldName, newName, address) ==
    LET x == ExecUpdate(s, oldName, address, oldName)
    IN  [err |-> IF x.ok THEN Nil ELSE ErrOther, store |-> x.store]

\* Faulty variant: the statement sets the name and leaves the url.
UpdateExecKeepsUrl(s, oldName, newName, address) ==
    LET x == ExecUpdate(s, newName, SelectUrl(s, oldName).url, oldName)
    IN  [err |-> IF x.ok THEN Nil ELSE ErrOther, store |-> x.store]

\* Faulty variant: the statement inserts the new row and leaves the old one.
UpdateExecInserts(s, oldName, newName, address) ==
    LET x == ExecInsert(s, newName, address)
    IN  [err |-> IF x.ok THEN Nil ELSE ErrOther, store |-> x.store]

\* Update's statement, with (newName, address, oldName): [err, store].
UpdateExec(s, oldName, newName, address) ==
    LET x == ExecUpdate(s, newName, address, oldName)
    IN  [err |-> IF x.ok THEN Nil ELSE ErrOther, store |-> x.store]

\* Update: [err, store].
Update(s, oldName, newName, address) ==
    IF UpdateCheckOld(s, oldName, newName, address) # Nil
    THEN [err |-> UpdateCheckOld(s, oldName, newName, address), store |-> s]
    ELSE IF UpdateCheckNew(s, newName) # Nil
    THEN [err |-> UpdateCheckNew(s, newName), store |-> s]
    ELSE UpdateExec(s, oldName, newName, address)

\* Delete up to its statement.
DeleteCheck(s, name) ==
    IF linkByName(s, name).err # Nil THEN ErrOther
    ELSE IF ~linkByName(s, name).found THEN ErrNotFound
    ELSE Nil

\* Faulty variant: the statement has no where clause.
DeleteExecAllRows(s, name) == [err |-> Nil, store |-> {}]

\* Delete's statement: [err, store].
DeleteExec(s, name) ==
    LET x == ExecDelete(s, name)
    IN  [err |-> IF x.ok THEN Nil ELSE ErrOther, store |-> x.store]

\* Delete: [err, store].
Delete(s, name) ==
    IF DeleteCheck(s, name) # Nil
    THEN [err |-> DeleteCheck(s, name), store |-> s]
    ELSE DeleteExec(s, name)

----------------------------------------------------------------------------
(* Package service: the handlers of the HTTP endpoints.  A handler is an   *)
(* operator from the table and the request to the response and the table   *)
(* it leaves: [status, location, page, err, store], where err is the error *)
(* package link returned to the handler.  Request paths are req.URL.Path,  *)
(* the decoded path; they are written with letters, '-', ':', '.', '/' and *)
(* '^', and hold no '?', '#' and '%'.                                      *)

StatusOK == 200
StatusMovedPermanently == 301
StatusSeeOther == 303
StatusTemporaryRedirect == 307
StatusBadRequest == 400
StatusNotFound == 404
StatusMethodNotAllowed == 405
StatusConflict == 409
StatusInternalServerError == 500

HasSuffix(s, c) == s # EmptyStr /\ s[Len(s)] = c

TrimPrefix(s, p) == IF HasPrefix(s, p) THEN SubSeq(s, Len(p) + 1, Len(s)) ELSE s

\* strings.Split(s, "/").
RECURSIVE PathSplit(_)
PathSplit(s) ==
    IF ~Contains(s, "/")
    THEN <<s>>
    ELSE <<SubSeq(s, 1, IndexOf(s, "/") - 1)>> \o PathSplit(SubSeq(s, IndexOf(s, "/") + 1, Len(s)))

\* path.Clean of a rooted path, on its segments: empty and "." segments go,
\* ".." takes the segment before it with it (none at the root).
RECURSIVE CleanSegments(_, _)
CleanSegments(segs, acc) ==
    IF segs = <<>> THEN acc
    ELSE IF Head(segs) \in {EmptyStr, <<".">>} THEN CleanSegments(Tail(segs), acc)
    ELSE IF Head(segs) = <<".", ".">>
    THEN CleanSegments(Tail(segs), IF acc = <<>> THEN acc ELSE SubSeq(acc, 1, Len(acc) - 1))
    ELSE CleanSegments(Tail(segs), Append(acc, Head(segs)))

RECURSIVE JoinRooted(_)
JoinRooted(segs) == IF segs = <<>> THEN EmptyStr ELSE <<"/">> \o Head(segs) \o JoinRooted(Tail(segs))

\* path.Clean of a rooted path.
PathClean(p) ==
    IF CleanSegments(PathSplit(p), <<>>) = <<>>
    THEN <<"/">>
    ELSE JoinRooted(CleanSegments(PathSplit(p), <<>>))

\* http.Redirect's "clean up but preserve trailing slash".
CleanKeepSlash(p) ==
    IF HasSuffix(p, "/") /\ ~HasSuffix(PathClean(p), "/") THEN PathClean(p) \o <<"/">> ELSE PathClean(p)

\* path.Split(oldpath): the directory, up to and with the last '/'.
PathDir(p) == SubSeq(p, 1, LastIndexOf(p, "/"))

\* http.Redirect(resp, req, url, code): the Location header.  A url without
\* scheme and host is made absolute against the request's path and cleaned;
\* any other url is sent as it is.
RedirectLocation(reqPath, url) ==
    IF URLParse(url).ok /\ URLParse(url).url.Scheme = EmptyStr /\ URLParse(url).url.Host = EmptyStr
    THEN CleanKeepSlash(IF url = EmptyStr \/ url[1] # "/" THEN PathDir(reqPath) \o url ELSE url)
    ELSE url

\* escape(path, encodePath), a character at a time: '^' must be escaped,
\* the other characters of the model's paths are left as they are.
RECURSIVE PathEscape(_)
PathEscape(s) ==
    IF s = EmptyStr THEN EmptyStr
    ELSE (IF Head(s) = "^" THEN <<"%", "5", "E">> ELSE <<Head(s)>>) \o PathEscape(Tail(s))

\* req.URL.EscapedPath().  A '^' on the wire, raw or as %5E, decodes to '^'
\* in Path, and neither form is kept as RawPath: the result is escape(Path).
EscapedPath(path) == PathEscape(path)

\* unescape(s, encodePath) of a request target: %5E is '^'.
RECURSIVE PathUnescape(_)
PathUnescape(s) ==
    IF s = EmptyStr THEN EmptyStr
    ELSE IF HasPrefix(s, <<"%", "5", "E">>) THEN <<"^">> \o PathUnescape(SubSeq(s, 4, Len(s)))
    ELSE <<Head(s)>> \o PathUnescape(Tail(s))

\* The data of the golink page, golink.tmpl.html: nil is NoPage.
NoPage == [Name |-> EmptyStr, Address |-> EmptyStr]

HttpResp(status, location, page, err, s) ==
    [status |-> status, location |-> location, page |-> page, links |-> {}, err |-> err, store |-> s]

\* The index page: the records handed to index.tmpl.html.
HttpListing(links, s) == [HttpResp(StatusOK, EmptyStr, NoPage, Nil, s) EXCEPT !.links = links]

\* http.Error and http.NotFound.
HttpError(status, err, s) == HttpResp(status, EmptyStr, NoPage, err, s)

\* http.Redirect.
HttpRedirect(reqPath, url, status, s) == HttpResp(status, RedirectLocation(reqPath, url), NoPage, Nil, s)

CreatePath == <<"/", "c", "r", "e", "a", "t", "e", "_", "g", "o", "l", "i", "n", "k">>
UpdatePath == <<"/", "u", "p", "d", "a", "t", "e", "_", "g", "o", "l", "i", "n", "k">>
DeletePath == <<"/", "d", "e", "l", "e", "t", "e", "_", "g", "o", "l", "i", "n", "k">>
GolinkPrefix == <<"/", "g", "o", "l", "i", "n", "k", "/">>
GoPath == <<"/", "g", "o">>
GoPrefix == <<"/", "g", "o", "/">>
RootPath == <<"/">>

\* gl.linkByName: [rec, found, err].
glLinkByName(s, name) == linkByName(s, name)

\* indexHandler for a path with a name: the redirect lookup of p.
indexHandlerName(s, path, p) ==
    IF glLinkByName(s, p).err # Nil THEN HttpError(StatusInternalServerError, ErrOther, s)
    ELSE IF glLinkByName(s, p).found
    THEN HttpRedirect(path, URLString(glLinkByName(s, p).rec.Link), StatusTemporaryRedirect, s)
    ELSE HttpError(StatusNotFound, Nil, s)

\* indexHandler for the path "/": every row of "select name, url from
\* links;", its url parsed, goes to the page.
indexHandlerList(s) ==
    IF \E r \in s : ~URLParse(r.url).ok
    THEN HttpError(StatusInternalServerError, ErrOther, s)
    ELSE HttpListing({[Name |-> r.name, Link |-> URLParse(r.url).url] : r \in s}, s)

indexHandler(s, path) ==
    IF TrimPrefix(EscapedPath(path), <<"/">>) # EmptyStr
    THEN indexHandlerName(s, path, TrimPrefix(EscapedPath(path), <<"/">>))
    ELSE indexHandlerList(s)

\* createHandler's answer to the error of link.Create.
createHandlerError(err) ==
    IF err = ErrAlreadyExists THEN StatusConflict
    ELSE IF err = ErrInvalidLinkName THEN StatusBadRequest
    ELSE IF err = ErrUnparseableAddress THEN StatusBadRequest
    ELSE StatusInternalServerError

\* createHandler, with the form fields name and link.
createHandler(s, name, l) ==
    IF Create(s, name, l).err # Nil
    THEN HttpError(createHandlerError(Create(s, name, l).err), Create(s, name, l).err, Create(s, name, l).store)
    ELSE HttpRedirect(CreatePath, GolinkPrefix \o name, StatusSeeOther, Create(s, name, l).store)

\* readHandler's answer to the error of link.Read.
readHandlerError(err) ==
    IF err = ErrNotFound THEN StatusNotFound
    ELSE IF err = ErrInvalidLinkName THEN StatusBadRequest
    ELSE StatusInternalServerError

\* readHandler, from the name on: the page is rendered from
\* data{record.Name, record.Link.String()}.
readHandlerName(s, name) ==
    IF Read(s, name).err # Nil
    THEN HttpError(readHandlerError(Read(s, name).err), Read(s, name).err, s)
    ELSE HttpResp(StatusOK, EmptyStr,
                  [Name |-> Read(s, name).rec.Name, Address |-> URLString(Read(s, name).rec.Link)], Nil, s)

\* readHandler, on the segments of the escaped path without its first '/'.
readHandlerSplit(s, split) ==
    IF Len(split) <= 1 THEN HttpError(StatusBadRequest, Nil, s) ELSE readHandlerName(s, split[2])

readHandler(s, path) == readHandlerSplit(s, PathSplit(TrimPrefix(EscapedPath(path), <<"/">>)))

\* updateHandler's answer to the error of link.Update: ErrNotFound has no
\* case of its own.
updateHandlerError(err) ==
    IF err = ErrAlreadyExists THEN StatusBadRequest
    ELSE IF err = ErrInvalidLinkName THEN StatusBadRequest
    ELSE IF err = ErrUnparseableAddress THEN StatusBadRequest
    ELSE StatusInternalServerError

\* updateHandler, with the form fields old_name, name and link.
updateHandler(s, oldName, reqName, reqLink) ==
    IF oldName = EmptyStr \/ reqName = EmptyStr \/ reqLink = EmptyStr
    THEN HttpError(StatusBadRequest, Nil, s)
    ELSE IF Update(s, oldName, reqName, reqLink).err # Nil
    THEN HttpError(updateHandlerError(Update(s, oldName, reqName, reqLink).err),
                   Update(s, oldName, reqName, reqLink).err, Update(s, oldName, reqName, reqLink).store)
    ELSE HttpRedirect(UpdatePath, GolinkPrefix \o reqName, StatusTemporaryRedirect,
                      Update(s, oldName, reqName, reqLink).store)

\* deleteHandler's answer to the error of link.Delete.
deleteHandlerError(err) == IF err = ErrNotFound THEN StatusNotFound ELSE StatusInternalServerError

\* deleteHandler, with the form field name.
deleteHandler(s, method, name) ==
    IF method = "GET" THEN HttpError(StatusMethodNotAllowed, Nil, s)
    ELSE IF Delete(s, name).err # Nil
    THEN HttpError(deleteHandlerError(Delete(s, name).err), Delete(s, name).err, Delete(s, name).store)
    ELSE HttpRedirect(DeletePath, RootPath, StatusTemporaryRedirect, Delete(s, name).store)

\* goHandler, from the lookup of the name on.
goHandlerName(s, path, name) ==
    IF glLinkByName(s, name).err # Nil THEN HttpError(StatusInternalServerError, ErrOther, s)
    ELSE IF ~glLinkByName(s, name).found THEN HttpError(StatusNotFound, Nil, s)
    ELSE HttpRedirect(path, URLString(glLinkByName(s, name).rec.Link), StatusTemporaryRedirect, s)

\* goHandler, on the segments of the escaped path.
goHandlerSplit(s, path, split) ==
    IF Len(split) <= 1 \/ Len(split) > 3 THEN HttpError(StatusBadRequest, Nil, s)
    ELSE IF Len(split) = 2 THEN HttpError(StatusNotFound, Nil, s)
    ELSE goHandlerName(s, path, split[3])

goHandler(s, path) == goHandlerSplit(s, path, PathSplit(EscapedPath(path)))

\* The host name main passes to service.New when PORT is set.
hostName == <<"g", "o", "l", "i", "n", "k", "s", "e", "r", "v", "i", "c", "e", ".", "c", "o", "m">>

HostGo == <<"g", "o">>
HttpsPrefix == <<"h", "t", "t", "p", "s", ":", "/", "/">>
ProtoHttp == <<"h", "t", "t", "p">>
FaviconPath == <<"/", "f", "a", "v", "i", "c", "o", "n", ".", "i", "c", "o">>

\* http.ServeMux's answer to a path that is not clean: 301 to the clean path.
muxRedirect(s, path) ==
    HttpRedirect(path, PathEscape(CleanKeepSlash(path)), StatusMovedPermanently, s)

\* The handler the mux of startUp picks for a clean path, by its patterns
\* ("/static/" and "/docs" serve files and are left out).
muxPattern(path) ==
    IF path = FaviconPath THEN "faviconHandler"
    ELSE IF path = CreatePath THEN "createHandler"
    ELSE IF HasPrefix(path, GolinkPrefix) THEN "readHandler"
    ELSE IF path = UpdatePath THEN "updateHandler"
    ELSE IF path = DeletePath THEN "deleteHandler"
    ELSE IF path = GoPath \/ HasPrefix(path, GoPrefix) THEN "goHandler"
    ELSE "indexHandler"

\* The name of what answers a GET of path behind httpsRedirectHandler.
muxHandler(path) == IF CleanKeepSlash(path) # path THEN "ServeMux" ELSE muxPattern(path)

\* mux.ServeHTTP for a GET without form fields.
muxServe(s, path) ==
    IF muxHandler(path) = "ServeMux" THEN muxRedirect(s, path)
    ELSE IF muxHandler(path) = "faviconHandler" THEN HttpError(StatusNotFound, Nil, s)
    ELSE IF muxHandler(path) = "createHandler" THEN createHandler(s, EmptyStr, EmptyStr)
    ELSE IF muxHandler(path) = "readHandler" THEN readHandler(s, path)
    ELSE IF muxHandler(path) = "updateHandler" THEN updateHandler(s, EmptyStr, EmptyStr, EmptyStr)
    ELSE IF muxHandler(path) = "deleteHandler" THEN deleteHandler(s, "GET", EmptyStr)
    ELSE IF muxHandler(path) = "goHandler" THEN goHandler(s, path)
    ELSE indexHandler(s, path)

\* Faulty variant: no case for X-Forwarded-Proto.
httpsRedirectsNoProtoCase(host, proto, uri) ==
    (host = HostGo /\ PathUnescape(uri) = RootPath) \/ (host = HostGo /\ PathUnescape(uri) # EmptyStr)

\* httpsRedirectHandler: the request is answered by one of the three cases
\* of its switch.
httpsRedirects(host, proto, uri) ==
    \/ (host = HostGo /\ PathUnescape(uri) = RootPath)
    \/ (host = HostGo /\ PathUnescape(uri) # EmptyStr)
    \/ proto = ProtoHttp

\* httpsRedirectHandler: the url it redirects to, by the first case of the
\* switch that holds.
httpsRedirectUrl(host, proto, uri) ==
    IF host = HostGo /\ PathUnescape(uri) = RootPath THEN HttpsPrefix \o hostName \o uri
    ELSE IF host = HostGo /\ PathUnescape(uri) # EmptyStr THEN HttpsPrefix \o hostName \o GoPrefix \o uri
    ELSE HttpsPrefix \o hostName \o uri

\* httpsRedirectHandler around the mux, for a GET with the Host header
\* host, the X-Forwarded-Proto header proto and the request target uri.
httpsRedirectHandler(s, host, proto, uri) ==
    IF httpsRedirects(host, proto, uri)
    THEN HttpRedirect(PathUnescape(uri), httpsRedirectUrl(host, proto, uri), StatusMovedPermanently, s)
    ELSE muxServe(s, PathUnescape(uri))

\* The name of what answers the request.
answeredBy(host, proto, uri) ==
    IF httpsRedirects(host, proto, uri) THEN "httpsRedirectHandler" ELSE muxHandler(PathUnescape(uri))

----------------------------------------------------------------------------
(* Calls one at a time (Spec): every action is one whole call of package   *)
(* link.  ret is the call that returned last: its arguments, what it       *)
(* returned and the table as the call found it.                            *)

NoRet == [op |-> "none", name |-> EmptyStr, newName |-> EmptyStr, address |-> EmptyStr,
          err |-> Nil, rec |-> NoRecord, pre |-> {}]

NoArgs == [op |-> "none", name |-> EmptyStr, newName |-> EmptyStr, address |-> EmptyStr,
           err |-> Nil, rec |-> NoRecord]

\* Concurrent callers (requests in flight), for SpecConc.
NumProcs == 2
Procs == 1..NumProcs

Init ==
    /\ store = {}
    /\ pc = [p \in Procs |-> "idle"]
    /\ args = [p \in Procs |-> NoArgs]
    /\ ret = NoRet

DoCreate(name, address) ==
    /\ ret = NoRet
    /\ store' = Create(store, name, address).store
    /\ ret' = [op |-> "Create", name |-> name, newName |-> EmptyStr, address |-> address,
               err |-> Create(store, name, address).err, rec |-> NoRecord, pre |-> store]
    /\ UNCHANGED <<pc, args>>

DoRead(name) ==
    /\ ret = NoRet
    /\ ret' = [op |-> "Read", name |-> name, newName |-> EmptyStr, address |-> EmptyStr,
               err |-> Read(store, name).err, rec |-> Read(store, name).rec, pre |-> store]
    /\ UNCHANGED <<store, pc, args>>

DoUpdate(oldName, newName, address) ==
    /\ ret = NoRet
    /\ store' = Update(store, oldName, newName, address).store
    /\ ret' = [op |-> "Update", name |-> oldName, newName |-> newName, address |-> address,
               err |-> Update(store, oldName, newName, address).err, rec |-> NoRecord, pre |-> store]
    /\ UNCHANGED <<pc, args>>

DoDelete(name) ==
    /\ ret = NoRet
    /\ store' = Delete(store, name).store
    /\ ret' = [op |-> "Delete", name |-> name, newName |-> EmptyStr, address |-> EmptyStr,
               err |-> Delete(store, name).err, rec |-> NoRecord, pre |-> store]
    /\ UNCHANGED <<pc, args>>

\* The caller takes what the call returned; the next call can begin.
Forget ==
    /\ ret # NoRet
    /\ ret' = NoRet
    /\ UNCHANGED <<store, pc, args>>

Next ==
    \/ \E name \in Names, address \in Addresses : DoCreate(name, address)
    \/ \E name \in Names : DoRead(name)
    \/ \E oldName \in Names, newName \in Names, address \in Addresses : DoUpdate(oldName, newName, address)
    \/ \E name \in Names : DoDelete(name)
    \/ Forget

Spec == Init /\ [][Next]_vars

----------------------------------------------------------------------------
(* Concurrent calls (SpecConc): each request runs its call statement by    *)
(* statement on the shared table, a step per database round trip.  A      *)
(* request that returned keeps its arguments and result in args until the  *)
(* request ends.                                                           *)

ConcNames == {NameF, NameG}
ConcAddresses == {AddrX, AddrY}

CanCall(p) == pc[p] = "idle"

Returned(p, a, err, rec) ==
    /\ pc' = [pc EXCEPT ![p] = "done"]
    /\ args' = [args EXCEPT ![p] = [a EXCEPT !.err = err, !.rec = rec]]

Goes(p, a, to) ==
    /\ pc' = [pc EXCEPT ![p] = to]
    /\ args' = [args EXCEPT ![p] = a]

CallCreate(p, name, address) ==
    /\ CanCall(p)
    /\ LET a == [NoArgs EXCEPT !.op = "Create", !.name = name, !.address = address]
       IN  IF CreateCheck(store, name, address) # Nil
           THEN Returned(p, a, CreateCheck(store, name, address), NoRecord)
           ELSE Goes(p, a, "create_exec")
    /\ UNCHANGED <<store, ret>>

StepCreateExec(p) ==
    /\ pc[p] = "create_exec"
    /\ store' = CreateExec(store, args[p].name, args[p].address).store
    /\ Returned(p, args[p], CreateExec(store, args[p].name, args[p].address).err, NoRecord)
    /\ UNCHANGED ret

CallRead(p, name) ==
    /\ CanCall(p)
    /\ Returned(p, [NoArgs EXCEPT !.op = "Read", !.name = name], Read(store, name).err, Read(store, name).rec)
    /\ UNCHANGED <<store, ret>>

\* The redirect lookup of goHandler and indexHandler: gl.linkByName, one query.
CallGoLookup(p, name) ==
    /\ CanCall(p)
    /\ Returned(p, [NoArgs EXCEPT !.op = "linkByName", !.name = name],
                glLinkByName(store, name).err, glLinkByName(store, name).rec)
    /\ UNCHANGED <<store, ret>>

CallUpdate(p, oldName, newName, address) ==
    /\ CanCall(p)
    /\ LET a == [NoArgs EXCEPT !.op = "Update", !.name = oldName, !.newName = newName, !.address = address]
       IN  IF UpdateCheckOld(store, oldName, newName, address) # Nil
           THEN Returned(p, a, UpdateCheckOld(store, oldName, newName, address), NoRecord)
           ELSE Goes(p, a, "update_check_new")
    /\ UNCHANGED <<store, ret>>

StepUpdateCheckNew(p) ==
    /\ pc[p] = "update_check_new"
    /\ IF UpdateCheckNew(store, args[p].newName) # Nil
       THEN Returned(p, args[p], UpdateCheckNew(store, args[p].newName), NoRecord)
       ELSE Goes(p, args[p], "update_exec")
    /\ UNCHANGED <<store, ret>>

StepUpdateExec(p) ==
    /\ pc[p] = "update_exec"
    /\ store' = UpdateExec(store, args[p].name, args[p].newName, args[p].address).store
    /\ Returned(p, args[p], UpdateExec(store, args[p].name, args[p].newName, args[p].address).err, NoRecord)
    /\ UNCHANGED ret

CallDelete(p, name) ==
    /\ CanCall(p)
    /\ LET a == [NoArgs EXCEPT !.op = "Delete", !.name = name]
       IN  IF DeleteCheck(store, name) # Nil
           THEN Returned(p, a, DeleteCheck(store, name), NoRecord)
           ELSE Goes(p, a, "delete_exec")
    /\ UNCHANGED <<store, ret>>

StepDeleteExec(p) ==
    /\ pc[p] = "delete_exec"
    /\ store' = DeleteExec(store, args[p].name).store
    /\ Returned(p, args[p], DeleteExec(store, args[p].name).err, NoRecord)
    /\ UNCHANGED ret

\* The request ends; its goroutine is free for the next request.
EndRequest(p) ==
    /\ pc[p] = "done"
    /\ pc' = [pc EXCEPT ![p] = "idle"]
    /\ args' = [args EXCEPT ![p] = NoArgs]
    /\ UNCHANGED <<store, ret>>

NextConc ==
    \/ \E p \in Procs, name \in ConcNames, address \in ConcAddresses : CallCreate(p, name, address)
    \/ \E p \in Procs : StepCreateExec(p)
    \/ \E p \in Procs, name \in ConcNames : CallRead(p, name)
    \/ \E p \in Procs, name \in ConcNames : CallGoLookup(p, name)
    \/ \E p \in Procs, oldName \in ConcNames, newName \in ConcNames, address \in ConcAddresses :
          CallUpdate(p, oldName, newName, address)
    \/ \E p \in Procs : StepUpdateCheckNew(p)
    \/ \E p \in Procs : StepUpdateExec(p)
    \/ \E p \in Procs, name \in ConcNames : CallDelete(p, name)
    \/ \E p \in Procs : StepDeleteExec(p)
    \/ \E p \in Procs : EndRequest(p)

SpecConc == Init /\ [][NextConc]_vars

----------------------------------------------------------------------------
(* Concurrent Creates (SpecCreates): the requests in flight all call       *)
(* link.Create, with names that are valid and addresses that parse, one of *)
(* them with an upper-case scheme.                                         *)

RaceAddresses == {AddrX, AddrY, AddrUpperX}

NextCreates ==
    \/ \E p \in Procs, name \in ConcNames, address \in RaceAddresses : CallCreate(p, name, address)
    \/ \E p \in Procs : StepCreateExec(p)
    \/ \E p \in Procs : EndRequest(p)

SpecCreates == Init /\ [][NextCreates]_vars

----------------------------------------------------------------------------
(* ValidLinkName on its own (SpecValid): the name is any string of up to   *)
(* MaxNameLen characters of NameAlphabet, and the one step applies          *)
(* ValidLinkName to it.                                                    *)

\* Ordinary letters, '-', ':', three whitespace characters and BlockChars.
NameAlphabet == {"f", "g", "-", ":", " ", "\n", "\t", "/", "<", ">"}

MaxNameLen == 3

NameStrings == UNION {[1..k -> NameAlphabet] : k \in 0..MaxNameLen}

InitValid ==
    /\ store = {}
    /\ pc = [p \in Procs |-> "idle"]
    /\ args = [p \in Procs |-> NoArgs]
    /\ \E name \in NameStrings : ret = [op |-> "name", name |-> name, valid |-> FALSE]

CallValidLinkName ==
    /\ ret.op = "name"
    /\ ret' = [op |-> "ValidLinkName", name |-> ret.name, valid |-> ValidLinkName(ret.name)]
    /\ UNCHANGED <<store, pc, args>>

NextValid == CallValidLinkName

SpecValid == InitValid /\ [][NextValid]_vars

----------------------------------------------------------------------------
(* Requests one at a time (SpecHttp): every action is one request served   *)
(* by its handler.  ret is the request answered last: its method, path and *)
(* form fields, the response, the error package link returned to the       *)
(* handler and the table as the request found it.                          *)

\* Names in form fields and paths: a letter, "..", a name with a character
\* that a path escapes, and for the forms the empty and a reserved name.
NameDots == <<".", ".">>
NameCaret == <<"f", "^">>
NameMarkup == <<"<", "f", ">">>
NameNewline == <<"f", "\n", "g">>
FormNames == {NameF, NameDots, NameCaret, EmptyStr, NameMarkup, NameNewline}

\* Addresses in the link field: with a scheme, with an upper-case scheme,
\* without scheme and host, with a control character, and none.
AddrRel == <<"g">>
FormLinks == {AddrX, AddrUpperX, AddrRel, AddrCTL, EmptyStr}

\* Names asked for under /golink/ and /go/: NameG never has a record here.
LookupNames == {NameF, NameCaret, NameG}

\* Paths the mux hands to readHandler and goHandler as they come.
GolinkPaths == {GolinkPrefix \o name : name \in LookupNames \cup {EmptyStr}}
GoPaths == {GoPath} \cup {GoPrefix \o name : name \in LookupNames \cup {EmptyStr, <<"f", "/", "g">>}}

\* Paths the mux hands to indexHandler: "/" and the paths of no other
\* pattern.
IndexPaths == {RootPath} \cup {RootPath \o name : name \in LookupNames}

Methods == {"GET", "POST"}

\* Host and X-Forwarded-Proto headers and request targets of the GETs that
\* come through httpsRedirectHandler: the shortcut host "go" and the
\* service's own name; no header, "http" and "https"; "/", names, a name
\* escaped on the wire, and the paths the redirects lead to.
Hosts == {HostGo, hostName}
Protos == {EmptyStr, ProtoHttp, HttpsPrefix}
RequestURIs == {RootPath, RootPath \o NameF, RootPath \o NameG, <<"/", "f", "%", "5", "E">>,
                GoPrefix \o NameF, GoPrefix \o RootPath \o NameF, GolinkPrefix \o NameF, DeletePath}

Served(op, method, path, name, newName, address, resp, pre) ==
    [op |-> op, method |-> method, path |-> path, name |-> name, newName |-> newName,
     address |-> address, status |-> resp.status, location |-> resp.location,
     page |-> resp.page, links |-> resp.links, err |-> resp.err, pre |-> pre]

PostCreate(name, l) ==
    /\ ret = NoRet
    /\ store' = createHandler(store, name, l).store
    /\ ret' = Served("createHandler", "POST", CreatePath, name, EmptyStr, l,
                     createHandler(store, name, l), store)
    /\ UNCHANGED <<pc, args>>

GetGolink(path) ==
    /\ ret = NoRet
    /\ store' = readHandler(store, path).store
    /\ ret' = Served("readHandler", "GET", path, EmptyStr, EmptyStr, EmptyStr,
                     readHandler(store, path), store)
    /\ UNCHANGED <<pc, args>>

PostUpdate(oldName, reqName, reqLink) ==
    /\ ret = NoRet
    /\ store' = updateHandler(store, oldName, reqName, reqLink).store
    /\ ret' = Served("updateHandler", "POST", UpdatePath, oldName, reqName, reqLink,
                     updateHandler(store, oldName, reqName, reqLink), store)
    /\ UNCHANGED <<pc, args>>

RequestDelete(method, name) ==
    /\ ret = NoRet
    /\ store' = deleteHandler(store, method, name).store
    /\ ret' = Served("deleteHandler", method, DeletePath, name, EmptyStr, EmptyStr,
                     deleteHandler(store, method, name), store)
    /\ UNCHANGED <<pc, args>>

GetGo(path) ==
    /\ ret = NoRet
    /\ store' = goHandler(store, path).store
    /\ ret' = Served("goHandler", "GET", path, EmptyStr, EmptyStr, EmptyStr,
                     goHandler(store, path), store)
    /\ UNCHANGED <<pc, args>>

GetIndex(path) ==
    /\ ret = NoRet
    /\ store' = indexHandler(store, path).store
    /\ ret' = Served("indexHandler", "GET", path, EmptyStr, EmptyStr, EmptyStr,
                     indexHandler(store, path), store)
    /\ UNCHANGED <<pc, args>>

Get(host, proto, uri) ==
    /\ ret = NoRet
    /\ store' = httpsRedirectHandler(store, host, proto, uri).store
    /\ ret' = [op |-> "Get", host |-> host, proto |-> proto, uri |-> uri,
               path |-> PathUnescape(uri), by |-> answeredBy(host, proto, uri),
               status |-> httpsRedirectHandler(store, host, proto, uri).status,
               location |-> httpsRedirectHandler(store, host, proto, uri).location,
               pre |-> store]
    /\ UNCHANGED <<pc, args>>

NextHttp ==
    \/ \E name \in FormNames, l \in FormLinks : PostCreate(name, l)
    \/ \E path \in GolinkPaths : GetGolink(path)
    \/ \E oldName \in FormNames, reqName \in FormNames, reqLink \in FormLinks :
          PostUpdate(oldName, reqName, reqLink)
    \/ \E method \in Methods, name \in FormNames : RequestDelete(method, name)
    \/ \E path \in GoPaths : GetGo(path)
    \/ \E path \in IndexPaths : GetIndex(path)
    \/ \E host \in Hosts, proto \in Protos, uri \in RequestURIs : Get(host, proto, uri)
    \/ Forget

SpecHttp == Init /\ [][NextHttp]_vars

----------------------------------------------------------------------------
(* The addresses of one record (SpecAddr): a record is created in the      *)
(* empty table, renamed with a new address and deleted, with every string  *)
(* of at most MaxAddrLen characters of AddrAlphabet as the address: an     *)
(* upper-case letter (a scheme that url.Parse lowers, a host or a path),   *)
(* ':', '/' and a control character.                                       *)

AddrAlphabet == {"H", ":", "/", "\n"}
MaxAddrLen == 3
AddrStrings == UNION {[1..n -> AddrAlphabet] : n \in 0..MaxAddrLen}

CreateAddress(name, address) ==
    /\ store = {}
    /\ store' = Create(store, name, address).store
    /\ ret' = [op |-> "Create", err |-> Create(store, name, address).err]
    /\ UNCHANGED <<pc, args>>

UpdateAddress(oldName, newName, address) ==
    /\ store' = Update(store, oldName, newName, address).store
    /\ ret' = [op |-> "Update", err |-> Update(store, oldName, newName, address).err]
    /\ UNCHANGED <<pc, args>>

DeleteAddress(name) ==
    /\ store' = Delete(store, name).store
    /\ ret' = [op |-> "Delete", err |-> Delete(store, name).err]
    /\ UNCHANGED <<pc, args>>

NextAddr ==
    \/ \E name \in ConcNames, address \in AddrStrings : CreateAddress(name, address)
    \/ \E oldName, newName \in ConcNames, address \in AddrStrings : UpdateAddress(oldName, newName, address)
    \/ \E name \in ConcNames : DeleteAddress(name)

SpecAddr == Init /\ [][NextAddr]_vars

----------------------------------------------------------------------------
(* GoLink.Run (SpecRun).  startUp builds server, starts a goroutine that   *)
(* waits for ctx.Done() and calls server.Shutdown, and calls               *)
(* http.Serve(l, server.Handler).  http.Serve serves l with a Server of    *)
(* its own: its accept loop ends when l.Accept fails, and it returns       *)
(* ErrServerClosed only when that Server of its own is shutting down.      *)
(* server itself never serves, so its Shutdown has no listener to close.   *)
(* pc holds the position of Run and of the goroutine, args the state of    *)
(* ctx, of server and of the listener, ret what Run returned.              *)

InitRun ==
    /\ store = {}
    /\ pc = [Run |-> "serve", shutdown |-> "wait"]
    /\ args = [cancelled |-> FALSE, serverInShutdown |-> FALSE, listenerOpen |-> TRUE]
    /\ ret = NoRet

\* The caller cancels ctx.
CancelCtx ==
    /\ ~args.cancelled
    /\ args' = [args EXCEPT !.cancelled = TRUE]
    /\ UNCHANGED <<store, pc, ret>>

\* The goroutine of startUp: <-ctx.Done(), then server.Shutdown, which marks
\* server as shutting down and closes the listeners server serves: none.
ServerShutdown ==
    /\ pc.shutdown = "wait"
    /\ args.cancelled
    /\ pc' = [pc EXCEPT !.shutdown = "done"]
    /\ args' = [args EXCEPT !.serverInShutdown = TRUE]
    /\ UNCHANGED <<store, ret>>

\* http.Serve accepts a connection from l and serves a POST /create_golink.
ServeCreate(name, l) ==
    /\ pc.Run = "serve"
    /\ args.listenerOpen
    /\ store' = createHandler(store, name, l).store
    /\ UNCHANGED <<pc, args, ret>>

\* http.Serve accepts a connection from l and serves a POST /delete_golink.
ServeDelete(name) ==
    /\ pc.Run = "serve"
    /\ args.listenerOpen
    /\ store' = deleteHandler(store, "POST", name).store
    /\ UNCHANGED <<pc, args, ret>>

\* l.Accept fails for good: http.Serve returns the error, which is not
\* ErrServerClosed, and Run returns it wrapped.
AcceptFails ==
    /\ pc.Run = "serve"
    /\ pc' = [pc EXCEPT !.Run = "returned"]
    /\ args' = [args EXCEPT !.listenerOpen = FALSE]
    /\ ret' = [op |-> "Run", err |-> ErrOther]
    /\ UNCHANGED store

NextRun ==
    \/ CancelCtx
    \/ ServerShutdown
    \/ \E name \in FormNames, l \in FormLinks : ServeCreate(name, l)
    \/ \E name \in FormNames : ServeDelete(name)
    \/ AcceptFails

\* The goroutine that waits for ctx.Done() is scheduled; requests and
\* failures of the listener come from outside and need not come.
SpecRun == InitRun /\ [][NextRun]_vars /\ WF_vars(ServerShutdown)

----------------------------------------------------------------------------
(* Properties.                                                             *)

\* The address of a record as a string, as the pages and redirects render
\* it: record.Link.String().
RecordAddress(rec) == URLString(rec.Link)

\* url.Parse(address).String(): the address as Create stores it.
Canonical(address) == URLString(URLParse(address).url)

\* The reference reading of the naming rule: non-empty, no whitespace, none
\* of '/', '<', '>'.
CleanName(name) ==
    /\ name # <<>>
    /\ \A i \in 1..Len(name) : name[i] \notin {" ", "\t", "\n", "\r", "\f", "/", "<", ">"}

CreateOfFreshName ==
    /\ ret.op = "Create"
    /\ CleanName(ret.name)
    /\ URLParse(ret.address).ok
    /\ RowsNamed(ret.pre, ret.name) = {}

\* C1 as stated: Create(name, address) of a valid name without a record and
\* a parseable address returns nil, and Read(name) right after it returns a
\* record with that name and exactly the address passed to Create.
C1_CreateThenReadSameAddress ==
    CreateOfFreshName =>
        /\ ret.err = Nil
        /\ Read(store, ret.name).err = Nil
        /\ Read(store, ret.name).rec.Name = ret.name
        /\ RecordAddress(Read(store, ret.name).rec) = ret.address

\* C1 amended: Create(name, address) of a valid name without a record and a
\* parseable address returns nil, and Read(name) right after it returns a
\* record with that name whose address is url.Parse(address).String(), the
\* canonical rendering of the address passed to Create.
C1_CreateThenReadCanonical ==
    CreateOfFreshName =>
        /\ ret.err = Nil
        /\ Read(store, ret.name).err = Nil
        /\ Read(store, ret.name).rec.Name = ret.name
        /\ RecordAddress(Read(store, ret.name).rec) = Canonical(ret.address)

C1_Witness ==
    /\ CreateOfFreshName
    /\ ret.err = Nil
    /\ ret.name = NameDash
    /\ ret.address = AddrUpperX
    /\ RecordAddress(Read(store, ret.name).rec) = AddrX

\* C2: Update(oldName, oldName, address) of an existing record with a
\* parseable address succeeds and sets the record's address to address, and
\* Update returns AlreadyExists only when a record other than the one being
\* updated holds newName.
C2_RetargetWithoutRename ==
    /\ (ret.op = "Update" /\ ret.newName = ret.name /\ RowsNamed(ret.pre, ret.name) # {}
            /\ URLParse(ret.address).ok)
        => (ret.err = Nil /\ RowsNamed(store, ret.name) = {Row(ret.name, ret.address)})
    /\ (ret.op = "Update" /\ ret.err = ErrAlreadyExists)
        => (ret.newName # ret.name /\ RowsNamed(ret.pre, ret.newName) # {})

RenameOfExisting ==
    /\ ret.op = "Update"
    /\ RowsNamed(ret.pre, ret.name) # {}
    /\ RowsNamed(ret.pre, ret.newName) = {}
    /\ CleanName(ret.newName)
    /\ URLParse(ret.address).ok

\* C3 as stated: Update(oldName, newName, address) with a record for oldName,
\* none for newName, newName valid and address parseable returns nil; then
\* Read(oldName) fails with NotFound and Read(newName) returns newName with
\* exactly the address passed to Update.
C3_RenameThenReadSameAddress ==
    RenameOfExisting =>
        /\ ret.err = Nil
        /\ Read(store, ret.name).err = ErrNotFound
        /\ Read(store, ret.newName).err = Nil
        /\ Read(store, ret.newName).rec.Name = ret.newName
        /\ RecordAddress(Read(store, ret.newName).rec) = ret.address

\* C3 amended: Update(oldName, newName, address) with a record for oldName,
\* none for newName, newName valid and address parseable returns nil; then
\* Read(oldName) fails with NotFound and Read(newName) returns newName with
\* the address url.Parse(address).String().
C3_RenameThenReadCanonical ==
    RenameOfExisting =>
        /\ ret.err = Nil
        /\ Read(store, ret.name).err = ErrNotFound
        /\ Read(store, ret.newName).err = Nil
        /\ Read(store, ret.newName).rec.Name = ret.newName
        /\ RecordAddress(Read(store, ret.newName).rec) = Canonical(ret.address)

C3_Witness ==
    /\ RenameOfExisting
    /\ ret.err = Nil
    /\ ret.name = NameF
    /\ ret.newName = NameG
    /\ ret.address = AddrUpperX
    /\ Row(NameG, AddrUpperX) \in store
    /\ Row(NameDash, AddrY) \in store

\* C4: in every state reached by concurrent Create, Update and Delete calls,
\* interleaved statement by statement, no two rows have the same name.
C4_UniqueNames == \A r1 \in store, r2 \in store : r1.name = r2.name => r1 = r2

\* Two Creates of one name both passed their lookup; the second insert was
\* refused by the table.
C4_Witness ==
    \E p \in Procs, q \in Procs :
        /\ p # q
        /\ pc[p] = "done" /\ args[p].op = "Create" /\ args[p].err = Nil
        /\ pc[q] = "done" /\ args[q].op = "Create" /\ args[q].err = ErrOther
        /\ args[p].name = args[q].name
        /\ args[p].address # args[q].address
        /\ Row(args[p].name, args[p].address) \in store

\* C5: after any sequence of Create, Update and Delete calls with arbitrary
\* arguments, every stored name is non-empty and holds no whitespace and
\* none of '/', '<', '>'.
C5_StoredNamesValid == \A r \in store : CleanName(r.name)

\* An Update of an existing record to a name with a space was refused.
C5_Witness ==
    /\ ret.op = "Update"
    /\ ret.newName = <<"f", " ", "g">>
    /\ ret.err = ErrInvalidLinkName
    /\ RowsNamed(store, ret.name) # {}
    /\ RowsNamed(store, NameDash) # {}

\* C6: Create with a name that is empty or holds a space or one of '/', '<',
\* '>' fails with InvalidName, whatever the address and the table, and
\* leaves the table as it was.
C6_CreateInvalidName ==
    (ret.op = "Create" /\ (ret.name = <<>> \/ ContainsAnyOf(ret.name, {" ", "/", "<", ">"})))
        => (ret.err = ErrInvalidLinkName /\ store = ret.pre)

C6_Witness ==
    /\ ret.op = "Create"
    /\ ret.name = <<"<", "f", ">">>
    /\ ret.address = AddrCTL
    /\ ret.err = ErrInvalidLinkName
    /\ store # {}

\* C7: Create with a valid name and an address url.Parse rejects fails with
\* UnparseableAddress and leaves the table as it was, whether or not the
\* name has a record.
C7_CreateUnparseable ==
    (ret.op = "Create" /\ CleanName(ret.name) /\ ~URLParse(ret.address).ok)
        => (ret.err = ErrUnparseableAddress /\ store = ret.pre)

C7_Witness ==
    /\ ret.op = "Create"
    /\ ret.name = NameF
    /\ ret.address = AddrNoScheme
    /\ ret.err = ErrUnparseableAddress
    /\ RowsNamed(ret.pre, NameF) # {}
    /\ RowsNamed(ret.pre, NameG) = {}

\* C8 as stated: after a successful Create(name, a1), a second Create(name,
\* a2) with any parseable a2 fails with AlreadyExists, and the stored record
\* has exactly the address a1 passed to the first call.
C8_CreateTwiceSameAddress ==
    (ret.op = "Create" /\ ret.err = Nil) =>
        \A a2 \in Addresses : URLParse(a2).ok =>
            /\ Create(store, ret.name, a2).err = ErrAlreadyExists
            /\ RowsNamed(Create(store, ret.name, a2).store, ret.name) = {Row(ret.name, ret.address)}

\* C8 amended: after a successful Create(name, a1), a second Create(name,
\* a2) with any parseable a2 fails with AlreadyExists and leaves the table
\* as the first call left it: the record of name has the address
\* url.Parse(a1).String().
C8_CreateTwiceUnchanged ==
    /\ (ret.op = "Create" /\ ret.err = Nil) =>
          \A a2 \in Addresses : URLParse(a2).ok =>
              /\ Create(store, ret.name, a2).err = ErrAlreadyExists
              /\ Create(store, ret.name, a2).store = store
              /\ RowsNamed(store, ret.name) = {Row(ret.name, Canonical(ret.address))}
    /\ (ret.op = "Create" /\ CleanName(ret.name) /\ URLParse(ret.address).ok
            /\ RowsNamed(ret.pre, ret.name) # {})
          => (ret.err = ErrAlreadyExists /\ store = ret.pre)

\* The second Create, with another address, was refused.
C8_Witness ==
    /\ ret.op = "Create"
    /\ ret.name = NameG
    /\ ret.address = AddrY
    /\ ret.err = ErrAlreadyExists
    /\ RowsNamed(store, NameG) = {Row(NameG, AddrX)}

\* C9: Delete(name) without a record for name fails with NotFound and leaves
\* the table as it was; with a record it returns nil and removes that
\* record, and Read(name) right after it fails with NotFound.
C9_Delete ==
    ret.op = "Delete" =>
        IF RowsNamed(ret.pre, ret.name) = {}
        THEN ret.err = ErrNotFound /\ store = ret.pre
        ELSE /\ ret.err = Nil
             /\ store = ret.pre \ RowsNamed(ret.pre, ret.name)
             /\ Read(store, ret.name).err = ErrNotFound

C9_Witness ==
    /\ ret.op = "Delete"
    /\ ret.err = Nil
    /\ RowsNamed(ret.pre, ret.name) # {}
    /\ Cardinality(store) = 2

\* C10: Update(oldName, newName, address) with a valid newName and a
\* parseable address and no record for oldName fails with NotFound and
\* leaves the table as it was.
C10_UpdateNotFound ==
    (ret.op = "Update" /\ CleanName(ret.newName) /\ URLParse(ret.address).ok
        /\ RowsNamed(ret.pre, ret.name) = {})
        => (ret.err = ErrNotFound /\ store = ret.pre)

C10_Witness ==
    /\ ret.op = "Update"
    /\ ret.name = NameF
    /\ ret.newName = NameG
    /\ ret.err = ErrNotFound
    /\ RowsNamed(ret.pre, NameF) = {}
    /\ RowsNamed(ret.pre, NameG) = {}
    /\ ret.pre # {}

UpdateOntoExisting ==
    /\ ret.op = "Update"
    /\ ret.name # ret.newName
    /\ RowsNamed(ret.pre, ret.name) # {}
    /\ RowsNamed(ret.pre, ret.newName) # {}
    /\ CleanName(ret.newName)
    /\ URLParse(ret.address).ok

\* C11: Update(oldName, newName, address) with oldName # newName, a record
\* for each of the two names, a valid newName and a parseable address fails
\* with AlreadyExists and leaves both records as they were.
C11_UpdateAlreadyExists ==
    UpdateOntoExisting =>
        /\ ret.err = ErrAlreadyExists
        /\ RowsNamed(store, ret.name) = RowsNamed(ret.pre, ret.name)
        /\ RowsNamed(store, ret.newName) = RowsNamed(ret.pre, ret.newName)
        /\ store = ret.pre

C11_Witness ==
    /\ UpdateOntoExisting
    /\ ret.name = NameF
    /\ ret.newName = NameG
    /\ ret.address = AddrY
    /\ ret.err = ErrAlreadyExists
    /\ Row(NameF, AddrX) \in store
    /\ Row(NameG, AddrX) \in store

\* C12: Update rejects before it reads or writes the table: an invalid
\* newName gives InvalidName, and a valid newName with an unparseable
\* address gives UnparseableAddress, whether or not oldName or newName have
\* records, and the table stays as it was.  So InvalidName comes before
\* UnparseableAddress, and both before NotFound and AlreadyExists.
C12_UpdateRejectsFirst ==
    ret.op = "Update" =>
        /\ ~CleanName(ret.newName) => (ret.err = ErrInvalidLinkName /\ store = ret.pre)
        /\ (CleanName(ret.newName) /\ ~URLParse(ret.address).ok)
               => (ret.err = ErrUnparseableAddress /\ store = ret.pre)

\* An invalid newName with an unparseable address and no record for oldName.
C12_Witness ==
    /\ ret.op = "Update"
    /\ ~CleanName(ret.newName)
    /\ ~URLParse(ret.address).ok
    /\ RowsNamed(ret.pre, ret.name) = {}
    /\ ret.pre # {}
    /\ ret.err = ErrInvalidLinkName

C14_ValidLinkName ==
    ret.op = "ValidLinkName" => (ret.valid <=> CleanName(ret.name))

C14_Witness ==
    /\ ret.op = "ValidLinkName"
    /\ ret.name = <<"f", "-", "\n">>
    /\ ~ret.valid

\* The step of request p in which Update's statement runs.
UpdateWrites(p) == pc[p] = "update_exec" /\ pc'[p] = "done"

\* The step in which request p reads a record: Read or the redirect lookup.
ReadsRecord(p) ==
    /\ pc[p] = "idle"
    /\ pc'[p] = "done"
    /\ args'[p].op \in {"Read", "linkByName"}
    /\ args'[p].rec # NoRecord

\* C15: a successful Update changes the record's name and address in one
\* step, also when Reads and redirect lookups of other requests run between
\* its steps: the step of the statement adds no row but (newName, address),
\* so none with the new name and the old address and none with the old name
\* and the new address, it removes no row but the one named oldName, and
\* after it no row named oldName is left but (newName, address) itself; and
\* every Read and redirect lookup returns a row of the table as one state
\* of the table holds it.
C15_UpdateAtomic ==
    [][/\ \A p \in Procs : UpdateWrites(p) =>
              /\ (store' \ store) \subseteq {Row(args[p].newName, args[p].address)}
              /\ (store \ store') \subseteq RowsNamed(store, args[p].name)
              /\ (args'[p].err = Nil /\ RowsNamed(store, args[p].name) # {}) =>
                     /\ Row(args[p].newName, args[p].address) \in store'
                     /\ RowsNamed(store', args[p].name) \subseteq {Row(args[p].newName, args[p].address)}
       /\ \A p \in Procs : ReadsRecord(p) =>
              \E r \in store : /\ r.name = args'[p].rec.Name
                               /\ URLParse(r.url).url = args'[p].rec.Link
      ]_vars

\* A rename that also changed the address has returned, and a redirect
\* lookup of the old name that ran before the statement holds the old row.
C15_Witness ==
    \E p \in Procs, q \in Procs :
        /\ pc[p] = "done" /\ args[p].op = "Update" /\ args[p].err = Nil
        /\ args[p].name = NameF /\ args[p].newName = NameG /\ args[p].address = AddrY
        /\ pc[q] = "done" /\ args[q].op = "linkByName" /\ args[q].name = NameF
        /\ RecordAddress(args[q].rec) = AddrX
        /\ store = {Row(NameG, AddrY)}

\* Requests p and q have both returned from Create of one name.
CreatedSameName(p, q) ==
    /\ p # q
    /\ pc[p] = "done" /\ args[p].op = "Create"
    /\ pc[q] = "done" /\ args[q].op = "Create"
    /\ args[p].name = args[q].name
    /\ CleanName(args[p].name)

\* C16 as stated: of two concurrent Creates of one valid name, whatever the
\* order of their lookups and inserts, at most one returns nil, the other
\* returns AlreadyExists or the error of its failed insert, and the table
\* then holds exactly one record of that name, with the address passed to
\* the Create that returned nil.
C16_OneCreateWinsSameAddress ==
    \A p \in Procs, q \in Procs : CreatedSameName(p, q) =>
        /\ Cardinality(RowsNamed(store, args[p].name)) = 1
        /\ args[p].err = Nil =>
               /\ args[q].err \in {ErrAlreadyExists, ErrOther}
               /\ RowsNamed(store, args[p].name) = {Row(args[p].name, args[p].address)}

\* C16 amended: of two concurrent Creates of one valid name, whatever the
\* order of their lookups and inserts, at most one returns nil, the other
\* returns AlreadyExists or the error of its failed insert, and the table
\* then holds exactly one record of that name, with the address of the
\* Create that returned nil as url.Parse(address).String() renders it.
C16_OneCreateWinsCanonical ==
    \A p \in Procs, q \in Procs : CreatedSameName(p, q) =>
        /\ Cardinality(RowsNamed(store, args[p].name)) = 1
        /\ args[p].err = Nil =>
               /\ args[q].err \in {ErrAlreadyExists, ErrOther}
               /\ RowsNamed(store, args[p].name) = {Row(args[p].name, Canonical(args[p].address))}

\* Both Creates passed their lookup before either inserted: the second
\* insert failed on the unique key.
C16_Witness ==
    \E p \in Procs, q \in Procs :
        /\ CreatedSameName(p, q)
        /\ args[p].err = Nil /\ args[p].address = AddrUpperX
        /\ args[q].err = ErrOther /\ args[q].address = AddrY
        /\ RowsNamed(store, args[p].name) = {Row(args[p].name, AddrX)}

LinkHandlers == {"createHandler", "readHandler", "updateHandler", "deleteHandler"}

\* C17: every handler answers InvalidName and UnparseableAddress with 400,
\* AlreadyExists with 409 or 400, NotFound with 404 and any other error with
\* 500; so POST /update_golink with an old_name without a record, POST
\* /delete_golink and GET /golink/<name> for an absent name all answer 404.
C17_StatusOfError ==
    ret.op \in LinkHandlers =>
        /\ ret.err \in {ErrInvalidLinkName, ErrUnparseableAddress} => ret.status = StatusBadRequest
        /\ ret.err = ErrAlreadyExists => ret.status \in {StatusConflict, StatusBadRequest}
        /\ ret.err = ErrNotFound => ret.status = StatusNotFound
        /\ ret.err = ErrOther => ret.status = StatusInternalServerError

\* C18: GET /go/<name> answers 307 with the stored address as Location when
\* name has a record and 404 when it has none, and leaves the table alone.
C18_GoRedirect ==
    \A name \in LookupNames :
        (ret.op = "goHandler" /\ ret.path = GoPrefix \o name) =>
            /\ store = ret.pre
            /\ IF RowsNamed(ret.pre, name) # {}
               THEN /\ ret.status = StatusTemporaryRedirect
                    /\ \E r \in RowsNamed(ret.pre, name) : ret.location = r.url
               ELSE ret.status = StatusNotFound

\* C19: POST /create_golink with name and link answers 303 with Location
\* /golink/<name> exactly when link.Create(name, link) returns nil, and the
\* table then holds the record (name, link); with any other answer the
\* table is as it was.
C19_CreateRedirect ==
    ret.op = "createHandler" =>
        /\ (ret.status = StatusSeeOther) <=> (Create(ret.pre, ret.name, ret.address).err = Nil)
        /\ ret.status = StatusSeeOther =>
               /\ ret.location = GolinkPrefix \o ret.name
               /\ Row(ret.name, ret.address) \in store
        /\ ret.status # StatusSeeOther => store = ret.pre

\* C20: GET /golink/<name> answers 200 with a page that holds the record's
\* name and address when name has a record, and 404 when name is valid and
\* has none.
C20_GolinkPage ==
    \A name \in LookupNames :
        (ret.op = "readHandler" /\ ret.path = GolinkPrefix \o name) =>
            IF RowsNamed(ret.pre, name) # {}
            THEN /\ ret.status = StatusOK
                 /\ ret.page.Name = name
                 /\ ret.page.Address = RecordAddress(Read(ret.pre, name).rec)
            ELSE CleanName(name) => ret.status = StatusNotFound

\* C21: GET / answers 200 and lists every stored record, whatever the table
\* holds; GET /<segment> answers as the redirect lookup does, 307 to the
\* stored address when segment has a record and 404 when it has none, and
\* lists nothing.
C21_Index ==
    ret.op = "indexHandler" =>
        /\ ret.path = RootPath =>
               /\ ret.status = StatusOK
               /\ {[name |-> l.Name, url |-> URLString(l.Link)] : l \in ret.links}
                      = {[name |-> r.name, url |-> Canonical(r.url)] : r \in ret.pre}
        /\ \A name \in LookupNames : ret.path = RootPath \o name =>
               /\ ret.links = {}
               /\ IF RowsNamed(ret.pre, name) # {}
                  THEN /\ ret.status = StatusTemporaryRedirect
                       /\ \E r \in RowsNamed(ret.pre, name) : ret.location = r.url
                  ELSE ret.status = StatusNotFound

\* C22 as stated: a GET with Host "go" and path "/", or with
\* X-Forwarded-Proto "http", is answered by httpsRedirectHandler with 301
\* and Location https://<hostName><request URI>, and the table is as it was.
C22_HttpsRedirectAnyHost ==
    (ret.op = "Get" /\ ((ret.host = HostGo /\ ret.path = RootPath) \/ ret.proto = ProtoHttp)) =>
        /\ ret.status = StatusMovedPermanently
        /\ ret.location = HttpsPrefix \o hostName \o ret.uri
        /\ ret.by = "httpsRedirectHandler"
        /\ store = ret.pre

\* C22: a GET with Host "go" and path "/", or with X-Forwarded-Proto "http"
\* and a Host other than "go", is answered by httpsRedirectHandler with 301
\* and Location https://<hostName><request URI>, and the table is as it was.
C22_HttpsRedirect ==
    (ret.op = "Get" /\ ((ret.host = HostGo /\ ret.path = RootPath)
                           \/ (ret.proto = ProtoHttp /\ ret.host # HostGo))) =>
        /\ ret.status = StatusMovedPermanently
        /\ ret.location = HttpsPrefix \o hostName \o ret.uri
        /\ ret.by = "httpsRedirectHandler"
        /\ store = ret.pre

C22_Witness ==
    /\ ret.op = "Get" /\ ret.proto = ProtoHttp /\ ret.host = hostName
    /\ ret.uri = <<"/", "f", "%", "5", "E">>
    /\ ret.location = HttpsPrefix \o hostName \o <<"/", "f", "%", "5", "E">>
    /\ store # {}

\* The path of the url a redirect of httpsRedirectHandler leads to.
LocationPath(location) == SubSeq(location, Len(HttpsPrefix \o hostName) + 1, Len(location))

\* C30: a GET of /<name> with Host "go" is answered with 301 and Location
\* https://<hostName>/go/<name>, whose path splits at '/' into the three
\* parts goHandler asks for, so that goHandler answers it as it answers
\* /go/<name>.
C30_ShortcutLocation ==
    (ret.op = "Get" /\ ret.host = HostGo /\ ret.path # RootPath) =>
        /\ ret.status = StatusMovedPermanently
        /\ ret.location = HttpsPrefix \o hostName \o GoPath \o ret.uri
        /\ Len(PathSplit(LocationPath(ret.location))) = 3
        /\ goHandler(ret.pre, PathUnescape(LocationPath(ret.location))).status
               \in {StatusTemporaryRedirect, StatusNotFound}

\* The name TestCreate looks up after posting name: '<' and '>' as HTML
\* entities, new lines taken out.
RECURSIVE Sanitized(_)
Sanitized(name) ==
    IF name = EmptyStr THEN EmptyStr
    ELSE IF Head(name) = "<" THEN <<"&", "l", "t", ";">> \o Sanitized(Tail(name))
    ELSE IF Head(name) = ">" THEN <<"&", "g", "t", ";">> \o Sanitized(Tail(name))
    ELSE IF Head(name) = "\n" THEN Sanitized(Tail(name))
    ELSE <<Head(name)>> \o Sanitized(Tail(name))

\* C23: POST /create_golink with a name that holds HTML markup or a new line,
\* a link that parses and no record under the sanitized name answers 303, and
\* link.Read of the sanitized name then succeeds.
C23_CreateSanitizes ==
    (/\ ret.op = "createHandler" /\ ret.name \in {NameMarkup, NameNewline}
     /\ ret.address = AddrX /\ RowsNamed(ret.pre, Sanitized(ret.name)) = {}) =>
        /\ ret.status = StatusSeeOther
        /\ Read(store, Sanitized(ret.name)).err = Nil

\* C24: in every reachable state the address of every stored record parses
\* as a URL.
C24_AddressesParse == \A r \in store : URLParse(r.url).ok

C24_Witness ==
    /\ ret.op = "Update" /\ ret.err = Nil
    /\ store = {Row(NameG, <<"H", ":", "/">>)}

\* The operations and handlers that only read the table.
Readers == {"Read", "readHandler", "goHandler", "indexHandler", "Get"}

\* C25: the table changes only by a Create without error, which adds one
\* row, an Update without error, which replaces one row, or a Delete without
\* error, which removes one row; reads, redirect lookups, the listing, the
\* golink page and every operation that returns an error leave it as it was.
C25_StoreFrame ==
    ret.op # "none" =>
        /\ ret.op \in Readers => store = ret.pre
        /\ (ret.op \notin Readers /\ ret.err # Nil) => store = ret.pre
        /\ store # ret.pre =>
               \/ /\ ret.op \in {"Create", "createHandler"}
                  /\ \E r \in store \ ret.pre : store = ret.pre \cup {r}
               \/ /\ ret.op \in {"Update", "updateHandler"}
                  /\ \E old \in ret.pre \ store, r \in store \ ret.pre : store = (ret.pre \ {old}) \cup {r}
               \/ /\ ret.op \in {"Delete", "deleteHandler"}
                  /\ \E old \in ret.pre \ store : store = ret.pre \ {old}

C25_Witness ==
    /\ ret.op = "deleteHandler" /\ ret.err = Nil
    /\ Cardinality(ret.pre) = 2 /\ Cardinality(store) = 1

C27_UpdateSuccessWrites ==
    [][\A p \in Procs : (UpdateWrites(p) /\ args'[p].err = Nil) =>
           Row(args[p].newName, args[p].address) \in store'
      ]_vars

\* The rows of s with a name other than name.
RowsNotNamed(s, name) == s \ RowsNamed(s, name)

\* C28: Create(n, a) and Delete(n) leave the rows with a name other than n
\* as they were, and Update(o, n, a) leaves the rows with a name other than o
\* as they were; the number of rows grows by one with a Create that returns
\* nil, shrinks by one with a Delete that returns nil and stays the same with
\* an Update that returns nil.
C28_OtherRecords ==
    /\ ret.op = "Create" =>
           /\ RowsNotNamed(store, ret.name) = RowsNotNamed(ret.pre, ret.name)
           /\ ret.err = Nil => Cardinality(store) = Cardinality(ret.pre) + 1
    /\ ret.op = "Delete" =>
           /\ RowsNotNamed(store, ret.name) = RowsNotNamed(ret.pre, ret.name)
           /\ ret.err = Nil => Cardinality(store) = Cardinality(ret.pre) - 1
    /\ ret.op = "Update" =>
           /\ RowsNotNamed(ret.pre, ret.name) \subseteq store
           /\ ret.err = Nil => Cardinality(store) = Cardinality(ret.pre)

C28_Witness ==
    /\ ret.op = "Update" /\ ret.err = Nil
    /\ ret.name = NameF /\ ret.newName = NameDash
    /\ Cardinality(ret.pre) = 2 /\ \E r \in ret.pre : r.name = NameG /\ r \in store

\* C29: once ctx is cancelled while Run serves, Run eventually returns nil.
C29_RunReturns ==
    (args.cancelled /\ pc.Run = "serve") ~> (pc.Run = "returned" /\ ret.err = Nil)

====
